---- MODULE Spec2Model ----
(***************************************************************************)
(* A model of the substreams manifest package (manifest/manifest.go) and   *)
(* of the store-stats tool (tools: StoreStatsE, getStore).                 *)
(*                                                                         *)
(*   Spec          the concurrent statistics collection of StoreStatsE     *)
(*   FairSpec      the same, with the fairness of the Go scheduler         *)
(*   SpecGetStore  getStore over bounded snapshot listings                 *)
(*   SpecValidate  validateStoreBuilder over bounded (policy, type) pairs  *)
(*   SpecParse     Input.parse over bounded inputs                         *)
(*   SpecSig       Module.Signature over bounded module graphs             *)
(***************************************************************************)
EXTENDS Naturals, Sequences, FiniteSets, TLC

VARIABLES
    val,        \* validateStoreBuilder: the module, and the error returned
    inp,        \* Input.parse: the input, and the error returned
    sel,        \* getStore: the snapshot listing, and what getStore returned
    kind,       \* StoreStatsE: each module's kind, "map" or "store"
    deps,       \* StoreStatsE: the modules each module takes as input (the graph)
    pc,         \* StoreStatsE: where each module's goroutine stands
    storeStats, \* StoreStatsE: each goroutine's own *StoreStats (Nil before it exists)
    fullFiles,  \* StoreStatsE: the non-partial files in the listing each goroutine got
    outcome,    \* StoreStatsE: how each goroutine ended (what it logged)
    wg,         \* StoreStatsE: the WaitGroup counter
    doneCalls,  \* StoreStatsE: the wg.Done() calls of each goroutine
    closed,     \* StoreStatsE: whether statsStream is closed
    stats,      \* StoreStatsE: the coordinator's stats slice
    coord,      \* StoreStatsE: the coordinator: "recv" (range loop) or "done"
    crashed,    \* StoreStatsE: whether an unrecovered panic ended the process
    sigMods,    \* Signature: the manifest's modules (kind, code, inputs as ordered now)
    sigDeps,    \* Signature: the module graph (the modules each module takes as input)
    sigChanged, \* Signature: the module whose code content was reloaded (0: none)
    sigCalls,   \* Signature: what the calls of Signature returned, per module
    calc        \* calculateStoreStats: the store iterated, and what the call left

statsVars == <<kind, deps, pc, storeStats, fullFiles, outcome, wg, doneCalls, closed, stats,
               coord, crashed>>
sigVars == <<sigMods, sigDeps, sigChanged, sigCalls>>
vars == <<val, inp, sel, statsVars, sigVars, calc>>

Nil == [nil |-> TRUE]    \* Go's nil pointer
NoError == "<nil>"       \* Go's nil error

(***************************************************************************)
(* manifest.go: validateStoreBuilder                                       *)
(***************************************************************************)

\* fmt.Sprintf("%s:%s", a, b)
SprintfColon(a, b) == a \o ":" \o b

combinations ==
    << "max:bigint", "max:int64", "max:bigfloat", "max:float64",
       "min:bigint", "min:int64", "min:bigfloat", "min:float64",
       "sum:bigint", "sum:int64", "sum:bigfloat", "sum:float64",
       "replace:bytes", "replace:string", "replace:proto",
       "ignore:bytes", "ignore:string", "ignore:proto" >>

ErrMissingUpdatePolicy == "missing 'output.updatePolicy' for kind 'store'"
ErrMissingValueType == "missing 'output.valueType' for kind 'store'"
ErrInvalidCombination ==
    "invalid 'output.updatePolicy' and 'output.valueType' combination, use one of: "

\* A variant that forgets the valueType check (used to test the property).
validateStoreBuilderNoValueTypeCheck(module) ==
    IF module.UpdatePolicy = "" THEN ErrMissingUpdatePolicy
    ELSE IF \E i \in DOMAIN combinations :
                SprintfColon(module.UpdatePolicy, module.ValueType) = combinations[i]
         THEN NoError
         ELSE ErrInvalidCombination

\* The error validateStoreBuilder returns (NoError: none).  It only reads module.
validateStoreBuilder(module) ==
    IF module.UpdatePolicy = "" THEN ErrMissingUpdatePolicy
    ELSE IF module.ValueType = "" THEN ErrMissingValueType
    ELSE LET found == \E i \in DOMAIN combinations :
                        SprintfColon(module.UpdatePolicy, module.ValueType)
                            = combinations[i]
         IN  IF ~found THEN ErrInvalidCombination ELSE NoError

\* The strings the model draws updatePolicy and valueType from.
PolicyInputs ==
    {"", "max", "min", "sum", "replace", "ignore", "set", "MAX", "max:bigint", "max:"}
ValueTypeInputs ==
    {"", "bigint", "int64", "bigfloat", "float64", "bytes", "string", "proto",
     "int32", ":bigint", "bigint:"}

ValInit ==
    val \in [module : [UpdatePolicy : PolicyInputs, ValueType : ValueTypeInputs],
             orig : {Nil}, called : {FALSE}, err : {NoError}]

ValIdle == val = [module |-> [UpdatePolicy |-> "", ValueType |-> ""],
                  orig |-> Nil, called |-> FALSE, err |-> NoError]

Validate ==
    /\ ~val.called
    /\ val.orig = Nil
    /\ val' = [val EXCEPT !.called = TRUE,
                          !.orig = val.module,
                          !.err = validateStoreBuilder(val.module)]
    /\ UNCHANGED <<inp, sel, statsVars, sigVars, calc>>

(***************************************************************************)
(* manifest.go: Input.parse                                                *)
(***************************************************************************)

\* fmt.Sprintf("%q", s) for the strings of the model (none needs escaping)
Quote(s) == "\"" \o s \o "\""

ErrAmbiguousInput == "one, and only one of 'map', 'store' or 'source' must be specified"
ErrInvalidMode(name) ==
    "input " \o Quote(name) \o ": 'mode' parameter must be one of: 'get', 'deltas'"

\* A variant that does not default the mode (used to test the property).
parseNoModeDefault(i) ==
    IF i.Map # "" /\ i.Store = "" /\ i.Source = ""
    THEN [input |-> [i EXCEPT !.Name = "map:" \o i.Map], err |-> NoError]
    ELSE IF i.Store # "" /\ i.Map = "" /\ i.Source = ""
    THEN LET i1 == [i EXCEPT !.Name = "store:" \o i.Store]
         IN  IF i1.Mode # "get" /\ i1.Mode # "deltas"
             THEN [input |-> i1, err |-> ErrInvalidMode(i1.Name)]
             ELSE [input |-> i1, err |-> NoError]
    ELSE IF i.Source # "" /\ i.Map = "" /\ i.Store = ""
    THEN [input |-> [i EXCEPT !.Name = "source:" \o i.Source], err |-> NoError]
    ELSE [input |-> i, err |-> ErrAmbiguousInput]

\* Input.parse: the input as it leaves it, and the error returned.
parse(i) ==
    IF i.Map # "" /\ i.Store = "" /\ i.Source = ""
    THEN [input |-> [i EXCEPT !.Name = "map:" \o i.Map], err |-> NoError]
    ELSE IF i.Store # "" /\ i.Map = "" /\ i.Source = ""
    THEN LET i1 == [i EXCEPT !.Name = "store:" \o i.Store]
             i2 == IF i1.Mode = "" THEN [i1 EXCEPT !.Mode = "get"] ELSE i1
         IN  IF i2.Mode # "get" /\ i2.Mode # "deltas"
             THEN [input |-> i2, err |-> ErrInvalidMode(i2.Name)]
             ELSE [input |-> i2, err |-> NoError]
    ELSE IF i.Source # "" /\ i.Map = "" /\ i.Store = ""
    THEN [input |-> [i EXCEPT !.Name = "source:" \o i.Source], err |-> NoError]
    ELSE [input |-> i, err |-> ErrAmbiguousInput]

RefInputs == {"", "a", "b_1"}
ModeInputs == {"", "get", "deltas", "GET", "delta"}

InpInit ==
    inp \in [input : [Source : RefInputs, Store : RefInputs, Map : RefInputs,
                      Mode : ModeInputs, Name : {""}],
             orig : {Nil}, called : {FALSE}, err : {NoError}]

InpIdle == inp = [input |-> [Source |-> "", Store |-> "", Map |-> "",
                             Mode |-> "", Name |-> ""],
                  orig |-> Nil, called |-> FALSE, err |-> NoError]

Parse ==
    /\ ~inp.called
    /\ inp.orig = Nil
    /\ LET r == parse(inp.input)
       IN  inp' = [inp EXCEPT !.called = TRUE, !.orig = inp.input,
                              !.input = r.input, !.err = r.err]
    /\ UNCHANGED <<val, sel, statsVars, sigVars, calc>>

(***************************************************************************)
(* sort.Slice, as the Go runtime runs it on a slice of at most 12          *)
(* elements: insertion sort.  less is the comparator, given as a function  *)
(* on pairs of elements.                                                   *)
(***************************************************************************)

Range(s) == {s[i] : i \in DOMAIN s}

Swap(s, i, j) == [s EXCEPT ![i] = s[j], ![j] = s[i]]

\* for j := i; j > a && less(data[j], data[j-1]); j-- { swap(j, j-1) }
RECURSIVE SiftLeft(_, _, _)
SiftLeft(s, j, less) ==
    IF j > 1 /\ less[<<s[j], s[j - 1]>>]
    THEN SiftLeft(Swap(s, j, j - 1), j - 1, less)
    ELSE s

\* for i := a + 1; i < b; i++ { ... }
RECURSIVE InsertionLoop(_, _, _)
InsertionLoop(s, i, less) ==
    IF i > Len(s) THEN s ELSE InsertionLoop(SiftLeft(s, i, less), i + 1, less)

SortSlice(s, less) == InsertionLoop(s, 2, less)

(***************************************************************************)
(* tools: getStore                                                         *)
(***************************************************************************)

EmptyStoreError == "store is empty"
ErrListing == "listing snapshot files: "
ErrLoading == "loading store: "
PanicIndexOutOfRange == "panic: runtime error: index out of range [0] with length 0"

\* A variant that keeps the partial files (used to test the property).
FilterNothing(files) == files

\* for _, file := range files { if file.Partial { continue }; append }
FilterNonPartial(files) == SelectSeq(files, LAMBDA f : ~f.Partial)

\* func(i, j int) bool { return kvFiles[i].EndBlock >= kvFiles[j].EndBlock }
EndBlockGeq(files) ==
    [p \in Range(files) \X Range(files) |-> p[1].EndBlock >= p[2].EndBlock]

\* kvFiles after the filter and the reverse sort.
kvFilesOf(files) ==
    SortSlice(FilterNonPartial(files), EndBlockGeq(FilterNonPartial(files)))

\* getStore(ctx, conf).  files is what conf.ListSnapshotFiles returns, listErr
\* whether it fails, loadErr whether s.Load fails.  The result: kind "ok"
\* (store and file returned), "err" (error returned) or "panic"; latest is the
\* file whose end block was handed to Load.
getStore(files, listErr, loadErr) ==
    IF listErr
    THEN [kind |-> "err", err |-> ErrListing, latest |-> Nil, file |-> Nil]
    ELSE IF Len(files) = 0
    THEN [kind |-> "err", err |-> EmptyStoreError, latest |-> Nil, file |-> Nil]
    ELSE LET kvFiles == kvFilesOf(files)
         IN  IF Len(kvFiles) = 0
             THEN [kind |-> "panic", err |-> PanicIndexOutOfRange,
                   latest |-> Nil, file |-> Nil]
             ELSE LET latestFile == kvFiles[1]
                  IN  IF loadErr
                      THEN [kind |-> "err", err |-> ErrLoading,
                            latest |-> latestFile, file |-> Nil]
                      ELSE [kind |-> "ok", err |-> NoError,
                            latest |-> latestFile, file |-> latestFile]

MaxFiles == 3

\* The snapshot files a listing is drawn from: full (kv) and partial files.
FileUniverse ==
    [Filename : {"f"}, StartBlock : {0}, EndBlock : {80, 90, 100}, Partial : BOOLEAN]
        \cup [Filename : {"g"}, StartBlock : {50}, EndBlock : {90, 100},
              Partial : BOOLEAN]

\* Listings: sequences of distinct files, in any order.
Listings(n) ==
    {s \in UNION {[1..k -> FileUniverse] : k \in 0..n} :
        \A i, j \in DOMAIN s : i # j => s[i] # s[j]}

SelInit ==
    sel \in [files : Listings(MaxFiles), called : {FALSE}, listErr : {FALSE},
             loadErr : {FALSE}, res : {Nil}]

SelIdle == sel = [files |-> <<>>, called |-> FALSE, listErr |-> FALSE,
                  loadErr |-> FALSE, res |-> Nil]

GetStore ==
    /\ ~sel.called
    /\ \E listErr, loadErr \in BOOLEAN :
          sel' = [sel EXCEPT !.called = TRUE, !.listErr = listErr,
                             !.loadErr = loadErr,
                             !.res = getStore(sel.files, listErr, loadErr)]
    /\ UNCHANGED <<val, inp, statsVars, sigVars, calc>>

(***************************************************************************)
(* tools: calculateStoreStats                                              *)
(***************************************************************************)

ErrIterating == "iterating store: "

\* The callback handed to stateStore.Iter, applied to one entry.
Visit(st, e) ==
    LET keyLen == Len(e.key)
        valueLen == Len(e.value)
        ks1 == [st.KeyStats EXCEPT !.TotalSize = @ + keyLen]
        vs1 == [st.ValueStats EXCEPT !.TotalSize = @ + valueLen]
        ks2 == IF keyLen > ks1.LargestSize
               THEN [ks1 EXCEPT !.LargestSize = keyLen, !.Largest = e.key]
               ELSE ks1
        vs2 == IF valueLen > vs1.LargestSize
               THEN [vs1 EXCEPT !.LargestSize = valueLen, !.Largest = e.key]
               ELSE vs1
    IN  [st EXCEPT !.KeysCount = @ + 1, !.KeyStats = ks2, !.ValueStats = vs2]

\* stateStore.Iter over entries[i..n], each visited once, in order.
RECURSIVE Iter(_, _, _, _)
Iter(st, entries, i, n) ==
    IF i > n THEN st ELSE Iter(Visit(st, entries[i]), entries, i + 1, n)

ZeroSizeStats == [TotalSize |-> 0, LargestSize |-> 0, Largest |-> ""]

\* calculateStoreStats(stateStore, stats).  visited is the number of entries
\* Iter visits before it returns (all of them unless it fails).  The floating
\* point AverageSize and StdDevSize are left out of the record.
calculateStoreStats(entries, st, iterErr, visited) ==
    LET st0 == [st EXCEPT !.KeyStats = ZeroSizeStats, !.ValueStats = ZeroSizeStats]
        st1 == Iter(st0, entries, 1, visited)
    IN  IF iterErr THEN [err |-> ErrIterating, stats |-> st1]
        ELSE IF st1.KeysCount > 0 THEN [err |-> NoError, stats |-> st1]
        ELSE [err |-> NoError,
              stats |-> [st1 EXCEPT !.KeyStats = Nil, !.ValueStats = Nil]]

(***************************************************************************)
(* manifest: ModuleGraph.TopologicalSort (the graph package is not part of *)
(* the sources at hand; modelled from its specification: every module      *)
(* comes after all modules it depends on, ties in declaration order)       *)
(***************************************************************************)

NumModules == 2

Modules == 1..NumModules

\* The module names of the manifest, in declaration order (unique).
NameOf == <<"a", "b", "c", "d", "e">>

RECURSIVE TopoFrom(_, _)
TopoFrom(d, placed) ==
    LET done == Range(placed)
        ready == {m \in Modules \ done : d[m] \subseteq done}
    IN  IF ready = {} THEN placed
        ELSE LET next == CHOOSE m \in ready : \A o \in ready : m <= o
             IN  TopoFrom(d, Append(placed, next))

TopologicalSort(d) == TopoFrom(d, <<>>)

\* The transitive dependencies of m.
RECURSIVE Reach(_, _, _)
Reach(d, from, n) ==
    IF n = 0 THEN from
    ELSE Reach(d, from \cup UNION {d[x] : x \in from}, n - 1)

TransDeps(d, m) == Reach(d, d[m], NumModules)

IsAcyclic(d) == \A m \in Modules : m \notin TransDeps(d, m)

(***************************************************************************)
(* tools: StoreStatsE                                                      *)
(***************************************************************************)

\* A goroutine that returns without sending leaves its record unreferenced:
\* storeStats[m] is Nil again.

\* A variant in which every goroutine reads the loop variable after the loop
\* has ended, the last module (used to test the property).
initializeStoreStatsLoopVar(m) ==
    [Name |-> NameOf[NumModules], ModuleHash |-> "hash_" \o NameOf[NumModules],
     ValueType |-> "bytes", UpdatePolicy |-> "replace", InitialBlock |-> NumModules,
     KeysCount |-> 0, FileInfo |-> Nil, KeyStats |-> Nil, ValueStats |-> Nil]

\* initializeStoreStats(conf): the identity fields; the rest is zero.
initializeStoreStats(m) ==
    [Name |-> NameOf[m], ModuleHash |-> "hash_" \o NameOf[m],
     ValueType |-> "bytes", UpdatePolicy |-> "replace", InitialBlock |-> m,
     KeysCount |-> 0, FileInfo |-> Nil, KeyStats |-> Nil, ValueStats |-> Nil]

\* The listings and store contents the goroutines of the collection meet.
File(end, partial) ==
    [Filename |-> "f", StartBlock |-> 0, EndBlock |-> end, Partial |-> partial]
StatsListings ==
    { <<>>,
      <<File(100, TRUE)>>,
      <<File(100, TRUE), File(90, FALSE), File(80, FALSE)>>,
      <<File(80, FALSE), File(90, FALSE)>> }
StoreContents ==
    { <<>>,
      <<[key |-> "abc", value |-> "0123456789"],
        [key |-> "abcdefg", value |-> "01234"],
        [key |-> "abcde", value |-> "0123456789"]>> }

\* sortedModulesIndex: module name -> position in TopologicalSort (from 0).
sortedModulesIndex(d) ==
    LET sortedModules == TopologicalSort(d)
    IN  [n \in Range(NameOf) |->
            IF \E i \in DOMAIN sortedModules : NameOf[sortedModules[i]] = n
            THEN (CHOOSE i \in DOMAIN sortedModules :
                      NameOf[sortedModules[i]] = n) - 1
            ELSE 0]

\* A variant whose index lookups all miss and yield 0 (used to test the
\* property).
StatsLessNoIndex(st, d) == [p \in Range(st) \X Range(st) |-> 0 > 0]

\* func(i, j int) bool { return index[stats[i].Name] > index[stats[j].Name] }
StatsLess(st, d) ==
    LET idx == sortedModulesIndex(d)
    IN  [p \in Range(st) \X Range(st) |-> idx[p[1].Name] > idx[p[2].Name]]

\* sort.Slice(stats, ...) of the final aggregation.
sortStats(st, d) == SortSlice(st, StatsLess(st, d))

\* fullFiles[m] before the listing exists, or when listing failed.
NotListed == [listed |-> FALSE, n |-> 0]

StatsInit ==
    /\ kind \in [Modules -> {"map", "store"}]
    /\ deps \in {d \in [Modules -> SUBSET Modules] : IsAcyclic(d)}
    /\ pc = [m \in Modules |-> "start"]
    /\ storeStats = [m \in Modules |-> Nil]
    /\ fullFiles = [m \in Modules |-> NotListed]
    /\ outcome = [m \in Modules |-> "running"]
    /\ wg = NumModules
    /\ doneCalls = [m \in Modules |-> 0]
    /\ closed = FALSE
    /\ stats = <<>>
    /\ coord = "recv"
    /\ crashed = FALSE

StatsIdle ==
    /\ kind = <<>> /\ deps = <<>> /\ pc = <<>> /\ storeStats = <<>>
    /\ fullFiles = <<>>
    /\ outcome = <<>> /\ wg = 0 /\ doneCalls = <<>> /\ closed = FALSE
    /\ stats = <<>> /\ coord = "idle" /\ crashed = FALSE

\* return, with the deferred wg.Done()
Return(m, how) ==
    /\ pc' = [pc EXCEPT ![m] = "done"]
    /\ outcome' = [outcome EXCEPT ![m] = how]
    /\ wg' = wg - 1
    /\ doneCalls' = [doneCalls EXCEPT ![m] = @ + 1]

\* lines 81-98: the kind check, store2.NewConfig and initializeStoreStats
TaskStart(m) ==
    /\ ~crashed /\ pc[m] = "start"
    /\ \/ /\ kind[m] # "store"
          /\ Return(m, "skipped")
          /\ UNCHANGED storeStats
       \/ /\ kind[m] = "store"
          /\ Return(m, "configError")
          /\ UNCHANGED storeStats
       \/ /\ kind[m] = "store"
          /\ storeStats' = [storeStats EXCEPT ![m] = initializeStoreStats(m)]
          /\ pc' = [pc EXCEPT ![m] = "getStore"]
          /\ UNCHANGED <<outcome, wg, doneCalls>>
    /\ UNCHANGED <<kind, deps, fullFiles, closed, stats, coord, crashed, val, inp, sel, sigVars, calc>>

\* lines 100-122: getStore, and on success conf.FileSize and the FileInfo
TaskGetStore(m) ==
    /\ ~crashed /\ pc[m] = "getStore"
    /\ \E files \in StatsListings, listErr, loadErr, sizeErr \in BOOLEAN :
          LET r == getStore(files, listErr, loadErr)
          IN  /\ fullFiles' = [fullFiles EXCEPT ![m] =
                     IF listErr THEN NotListed
                     ELSE [listed |-> TRUE, n |-> Len(FilterNonPartial(files))]]
              /\ \/ /\ r.kind = "err" /\ r.err = EmptyStoreError
                    /\ pc' = [pc EXCEPT ![m] = "send"]
                    /\ outcome' = [outcome EXCEPT ![m] = "empty"]
                    /\ UNCHANGED <<storeStats, wg, doneCalls>>
                 \/ /\ r.kind = "err" /\ r.err # EmptyStoreError
                    /\ Return(m, "storeError")
                    /\ storeStats' = [storeStats EXCEPT ![m] = Nil]
                 \/ /\ r.kind = "panic"
                    /\ Return(m, "panic")
                    /\ storeStats' = [storeStats EXCEPT ![m] = Nil]
                 \/ /\ r.kind = "ok" /\ sizeErr
                    /\ Return(m, "fileSizeError")
                    /\ storeStats' = [storeStats EXCEPT ![m] = Nil]
                 \/ /\ r.kind = "ok" /\ ~sizeErr
                    /\ storeStats' = [storeStats EXCEPT ![m].FileInfo =
                           [FileBlockRange |-> <<r.file.StartBlock, r.file.EndBlock>>,
                            FileName |-> r.file.Filename, FileSize |-> 1]]
                    /\ pc' = [pc EXCEPT ![m] = "calculate"]
                    /\ UNCHANGED <<outcome, wg, doneCalls>>
    /\ UNCHANGED <<kind, deps, closed, stats, coord, crashed, val, inp, sel, sigVars, calc>>

\* lines 124-128: calculateStoreStats
TaskCalculate(m) ==
    /\ ~crashed /\ pc[m] = "calculate"
    /\ \E entries \in StoreContents, iterErr \in BOOLEAN :
       \E visited \in (IF iterErr THEN 0..Len(entries) ELSE {Len(entries)}) :
          LET r == calculateStoreStats(entries, storeStats[m], iterErr, visited)
          IN  \/ /\ r.err # NoError
                 /\ Return(m, "iterError")
                 /\ storeStats' = [storeStats EXCEPT ![m] = Nil]
              \/ /\ r.err = NoError
                 /\ storeStats' = [storeStats EXCEPT ![m] = r.stats]
                 /\ pc' = [pc EXCEPT ![m] = "send"]
                 /\ outcome' = [outcome EXCEPT ![m] = "ok"]
                 /\ UNCHANGED <<wg, doneCalls>>
    /\ UNCHANGED <<kind, deps, fullFiles, closed, stats, coord, crashed, val, inp, sel, sigVars, calc>>

\* statsStream <- storeStats (lines 104, 130) meeting the coordinator's
\* receive and append (lines 135-137): the channel is unbuffered.
Deliver(m) ==
    /\ ~crashed /\ pc[m] = "send" /\ coord = "recv" /\ ~closed
    /\ stats' = Append(stats, storeStats[m])
    /\ pc' = [pc EXCEPT ![m] = "sent"]
    /\ UNCHANGED <<kind, deps, storeStats, fullFiles, outcome, wg, doneCalls, closed, coord,
                   crashed, val, inp, sel, sigVars, calc>>

\* the return after a send (lines 105, 131), with the deferred wg.Done()
TaskReturn(m) ==
    /\ ~crashed /\ pc[m] = "sent"
    /\ Return(m, outcome[m])
    /\ UNCHANGED <<kind, deps, storeStats, fullFiles, closed, stats, coord, crashed,
                   val, inp, sel, sigVars, calc>>

\* lines 65-70: wg.Wait() returns, close(statsStream)
CloseStream ==
    /\ ~crashed /\ wg = 0 /\ ~closed
    /\ closed' = TRUE
    /\ UNCHANGED <<kind, deps, pc, storeStats, fullFiles, outcome, wg, doneCalls, stats,
                   coord, crashed, val, inp, sel, sigVars, calc>>

\* lines 135-156: the range loop ends on the closed channel; the sort; output
Finish ==
    /\ ~crashed /\ coord = "recv" /\ closed
    /\ stats' = sortStats(stats, deps)
    /\ coord' = "done"
    /\ UNCHANGED <<kind, deps, pc, storeStats, fullFiles, outcome, wg, doneCalls, closed,
                   crashed, val, inp, sel, sigVars, calc>>

\* the runtime ends the process on the unrecovered panic of a goroutine, after
\* that goroutine's deferred calls; main may have returned before it does
Crash(m) ==
    /\ ~crashed /\ outcome[m] = "panic" /\ coord # "done"
    /\ crashed' = TRUE
    /\ UNCHANGED <<kind, deps, pc, storeStats, fullFiles, outcome, wg, doneCalls, closed,
                   stats, coord, val, inp, sel, sigVars, calc>>

StatsNext ==
    \/ \E m \in Modules :
          \/ TaskStart(m)
          \/ TaskGetStore(m)
          \/ TaskCalculate(m)
          \/ Deliver(m)
          \/ TaskReturn(m)
          \/ Crash(m)
    \/ CloseStream
    \/ Finish

(***************************************************************************)
(* manifest.go: Module.Signature.  Strings and code are byte sequences; a  *)
(* SHA-1 digest is one block holding the bytes digested, so that two       *)
(* digests are equal exactly when the bytes are (the digest is injective). *)
(***************************************************************************)

NumSigModules == 2

SigModules == 1..NumSigModules

\* "a", "b", "c", ...: the module names
SigName(m) == <<96 + m>>

BytesMap == <<109, 97, 112>>                            \* "map"
BytesStore == <<115, 116, 111, 114, 101>>               \* "store"
BytesSource == <<115, 111, 117, 114, 99, 101>>          \* "source"
BytesBuildState ==                                      \* "build_state"
    <<98, 117, 105, 108, 100, 95, 115, 116, 97, 116, 101>>
BytesColon == <<58>>                                    \* ":"

\* Input.Name as Input.parse sets it (lines 162, 166, 176)
MapInputName(id) == BytesMap \o BytesColon \o id
StoreInputName(id) == BytesStore \o BytesColon \o id
SourceInputName(id) == BytesSource \o BytesColon \o id

\* Go's < on strings: bytewise lexicographic order
RECURSIVE LexLess(_, _)
LexLess(a, b) ==
    IF Len(b) = 0 THEN FALSE
    ELSE IF Len(a) = 0 THEN TRUE
    ELSE IF Head(a) # Head(b) THEN Head(a) < Head(b)
    ELSE LexLess(Tail(a), Tail(b))

\* func(i, j int) bool { return m.Inputs[i].Name < m.Inputs[j].Name }
InputNameLess(inputs) ==
    [p \in Range(inputs) \X Range(inputs) |-> LexLess(p[1].Name, p[2].Name)]

\* A variant that leaves the inputs as declared (used to test the property).
sortInputsNot(inputs) == inputs

\* sort.Slice(m.Inputs, ...) (lines 303-305)
sortInputs(inputs) == SortSlice(inputs, InputNameLess(inputs))

\* sha1.New(); h.Write(buf); h.Sum(nil)
Sha1(buf) == <<[sha1 |-> buf]>>

RECURSIVE Concat(_)
Concat(ss) == IF Len(ss) = 0 THEN <<>> ELSE Head(ss) \o Concat(Tail(ss))

\* graph.AncestorsOf(name): the modules m transitively depends on, in
\* declaration order, each once (the graph package is not part of the sources
\* at hand; modelled from its specification).
RECURSIVE SigReach(_, _, _)
SigReach(d, from, n) ==
    IF n = 0 THEN from
    ELSE SigReach(d, from \cup UNION {d[x] : x \in from}, n - 1)

SigTransDeps(d, m) == SigReach(d, d[m], NumSigModules)

RECURSIVE SetToSeqUpTo(_, _)
SetToSeqUpTo(S, n) ==
    IF n = 0 THEN <<>>
    ELSE IF n \in S THEN Append(SetToSeqUpTo(S, n - 1), n)
    ELSE SetToSeqUpTo(S, n - 1)

AncestorsOf(d, m) == SetToSeqUpTo(SigTransDeps(d, m), NumSigModules)

\* A variant that leaves the code content out of the digest (used to test
\* the property).
RECURSIVE SignatureNoContent(_, _, _)
SignatureNoContent(mods, d, m) ==
    LET inputs == sortInputs(mods[m].Inputs)
        ancestors == AncestorsOf(d, m)
    IN  Sha1(mods[m].Kind \o mods[m].Code.Entrypoint
             \o Concat([i \in DOMAIN inputs |-> inputs[i].Name])
             \o Concat([i \in DOMAIN ancestors |->
                            SignatureNoContent(mods, d, ancestors[i])]))

\* The bytes m.Signature(graph) returns.
RECURSIVE Signature(_, _, _)
Signature(mods, d, m) ==
    LET inputs == sortInputs(mods[m].Inputs)
        ancestors == AncestorsOf(d, m)
    IN  Sha1(mods[m].Kind \o mods[m].Code.Content \o mods[m].Code.Entrypoint
             \o Concat([i \in DOMAIN inputs |-> inputs[i].Name])
             \o Concat([i \in DOMAIN ancestors |->
                            Signature(mods, d, ancestors[i])]))

\* The modules as m.Signature(graph) leaves them: the inputs of m and, through
\* the recursive calls, of its ancestors are sorted in place.
SignatureSorts(mods, d, m) ==
    [x \in SigModules |->
        IF x = m \/ x \in SigTransDeps(d, m)
        THEN [mods[x] EXCEPT !.Inputs = sortInputs(mods[x].Inputs)]
        ELSE mods[x]]

\* The permutations of a sequence of distinct elements.
RECURSIVE Perms(_)
Perms(s) ==
    IF Len(s) <= 1 THEN {s}
    ELSE UNION {{<<s[i]>> \o t :
                    t \in Perms(SelectSeq(s, LAMBDA e : e # s[i]))} :
                i \in DOMAIN s}

\* The inputs a module declares: a source, and one input for each module it
\* depends on, a store input (mode get) or a map input by that module's kind.
DeclaredInputs(k, d, m) ==
    <<[Name |-> SourceInputName(<<120>>), Mode |-> <<>>]>>
        \o [i \in 1..Len(SetToSeqUpTo(d[m], NumSigModules)) |->
              LET x == SetToSeqUpTo(d[m], NumSigModules)[i]
              IN  IF k[x] = "store"
                  THEN [Name |-> StoreInputName(SigName(x)), Mode |-> <<103, 101, 116>>]
                  ELSE [Name |-> MapInputName(SigName(x)), Mode |-> <<>>]]

\* The code contents a module file is loaded with.
InitialContent == <<0, 97, 115, 109>>
ReloadedContents == {<<0, 97, 115, 110>>, <<0, 97, 115>>}

NoCalls == [before |-> <<>>, again |-> <<>>, after |-> <<>>, declared |-> <<>>]

\* The module list of a manifest: kinds k, graph d, inputs ordered as ord says.
ManifestModules(k, d, ord) ==
    [m \in SigModules |->
        [Name |-> SigName(m),
         Kind |-> IF k[m] = "store" THEN BytesStore ELSE BytesMap,
         Code |-> [Content |-> InitialContent,
                   Entrypoint |-> IF k[m] = "store" THEN BytesBuildState
                                  ELSE BytesMap],
         Inputs |-> ord[m]]]

SigInit ==
    /\ sigDeps \in {d \in [SigModules -> SUBSET SigModules] :
                      \A m \in SigModules : \A x \in d[m] : x < m}
    /\ \E k \in [SigModules -> {"map", "store"}] :
          LET perms == [m \in SigModules |-> Perms(DeclaredInputs(k, sigDeps, m))]
          IN  \E ord \in {o \in [SigModules -> UNION Range(perms)] :
                             \A m \in SigModules : o[m] \in perms[m]} :
                 sigMods = ManifestModules(k, sigDeps, ord)
    /\ sigChanged = 0
    /\ sigCalls = [m \in SigModules |-> NoCalls]

SigIdle ==
    /\ sigMods = <<>> /\ sigDeps = <<>> /\ sigChanged = 0 /\ sigCalls = <<>>

\* m.Signature(graph): the first call for m, a second call on the unchanged
\* manifest, or a call after a module's code was reloaded.  The result is
\* kept as a one-element sequence, with the inputs as they were ordered when
\* the first call began.
CallSignature(m) ==
    /\ LET sig == Signature(sigMods, sigDeps, m)
           c == sigCalls[m]
       IN  \/ /\ sigChanged = 0 /\ c.before = <<>>
              /\ sigCalls' = [sigCalls EXCEPT ![m] =
                     [c EXCEPT !.before = <<sig>>,
                               !.declared = <<sigMods[m].Inputs>>]]
           \/ /\ sigChanged = 0 /\ c.before # <<>> /\ c.again = <<>>
              /\ sigCalls' = [sigCalls EXCEPT ![m] = [c EXCEPT !.again = <<sig>>]]
           \/ /\ sigChanged # 0 /\ c.after = <<>>
              /\ sigCalls' = [sigCalls EXCEPT ![m] = [c EXCEPT !.after = <<sig>>]]
    /\ sigMods' = SignatureSorts(sigMods, sigDeps, m)
    /\ UNCHANGED <<sigDeps, sigChanged, val, inp, sel, statsVars, calc>>

\* manifest.New, lines 90-100: the module's code file is read again and its
\* content, which has changed, replaces Code.Content.
ReloadCode(m) ==
    /\ sigChanged = 0
    /\ \E cnt \in ReloadedContents :
          /\ Len(cnt) # 0
          /\ cnt # sigMods[m].Code.Content
          /\ sigMods' = [sigMods EXCEPT ![m].Code.Content = cnt]
    /\ sigChanged' = m
    /\ UNCHANGED <<sigDeps, sigCalls, val, inp, sel, statsVars, calc>>

SigNext == \E m \in SigModules : CallSignature(m) \/ ReloadCode(m)

(***************************************************************************)
(* tools: calculateStoreStats over one loaded store                        *)
(***************************************************************************)

MaxEntries == 3

\* The keys and values a loaded store may hold.  A store keeps one entry per
\* key; a value may be empty (zero bytes), and two keys may have one length.
StoreKeys == {"", "abc", "xyz", "abcde"}
StoreValues == {"", "01234", "0123456789"}

KeysOf(s) == {s[i].key : i \in DOMAIN s}

\* The orders in which stateStore.Iter may visit the n entries of a store.
RECURSIVE Stores(_)
Stores(n) ==
    IF n = 0 THEN {<<>>}
    ELSE UNION { { Append(s, [key |-> k, value |-> v]) :
                       k \in StoreKeys \ KeysOf(s), v \in StoreValues } :
                 s \in Stores(n - 1) }

CalcInit ==
    calc \in { [entries |-> s, called |-> FALSE, err |-> NoError,
                stats |-> initializeStoreStats(1)] :
               s \in UNION { Stores(n) : n \in 0..MaxEntries } }

CalcIdle ==
    calc = [entries |-> <<>>, called |-> FALSE, err |-> NoError, stats |-> Nil]

\* One call of calculateStoreStats(stateStore, stats).
Calculate ==
    /\ ~calc.called
    /\ \E iterErr \in BOOLEAN, visited \in 0..Len(calc.entries) :
          /\ iterErr \/ visited = Len(calc.entries)
          /\ LET r == calculateStoreStats(calc.entries, calc.stats, iterErr, visited)
             IN  calc' = [calc EXCEPT !.called = TRUE, !.err = r.err, !.stats = r.stats]
    /\ UNCHANGED <<val, inp, sel, statsVars, sigVars>>

(***************************************************************************)
(* Specifications                                                          *)
(***************************************************************************)

InitValidate == ValInit /\ InpIdle /\ SelIdle /\ StatsIdle /\ SigIdle /\ CalcIdle
SpecValidate == InitValidate /\ [][Validate]_vars

InitParse == InpInit /\ ValIdle /\ SelIdle /\ StatsIdle /\ SigIdle /\ CalcIdle
SpecParse == InitParse /\ [][Parse]_vars

InitGetStore == SelInit /\ ValIdle /\ InpIdle /\ StatsIdle /\ SigIdle /\ CalcIdle
SpecGetStore == InitGetStore /\ [][GetStore]_vars

InitSig == SigInit /\ ValIdle /\ InpIdle /\ SelIdle /\ StatsIdle /\ CalcIdle
SpecSig == InitSig /\ [][SigNext]_vars

InitCalc == CalcInit /\ ValIdle /\ InpIdle /\ SelIdle /\ StatsIdle /\ SigIdle
SpecCalc == InitCalc /\ [][Calculate]_vars

Init == StatsInit /\ ValIdle /\ InpIdle /\ SelIdle /\ SigIdle /\ CalcIdle
Next == StatsNext
Spec == Init /\ [][Next]_vars

\* The Go scheduler runs every goroutine that can take a step, and the
\* runtime ends the process once a goroutine has panicked.
FairSpec ==
    /\ Spec
    /\ \A m \in Modules :
          /\ WF_vars(TaskStart(m))
          /\ WF_vars(TaskGetStore(m))
          /\ WF_vars(TaskCalculate(m))
          /\ WF_vars(Deliver(m))
          /\ WF_vars(TaskReturn(m))
          /\ WF_vars(Crash(m))
    /\ WF_vars(CloseStream)
    /\ WF_vars(Finish)

\* C2: when the listing holds a non-partial file, the file getStore selects
\* and hands to Load is not partial and its end block is at least that of
\* every non-partial file listed, whatever the order of the listing and the
\* end blocks of the partial files; when Load succeeds that file is returned.
HasNonPartial(files) == \E i \in DOMAIN files : ~files[i].Partial
C2_LatestNonPartial ==
    (sel.called /\ ~sel.listErr /\ HasNonPartial(sel.files)) =>
        /\ sel.res.kind # "panic"
        /\ sel.res.latest \in Range(sel.files)
        /\ ~sel.res.latest.Partial
        /\ \A i \in DOMAIN sel.files :
              ~sel.files[i].Partial =>
                  sel.res.latest.EndBlock >= sel.files[i].EndBlock
        /\ ~sel.loadErr => (sel.res.kind = "ok" /\ sel.res.file = sel.res.latest)
        /\ sel.loadErr => (sel.res.kind = "err" /\ sel.res.err = ErrLoading)
C2_Witness ==
    /\ sel.called /\ ~sel.listErr /\ ~sel.loadErr
    /\ Len(sel.files) = 3
    /\ sel.files[1].EndBlock = 100 /\ sel.files[1].Partial
    /\ sel.files[2].EndBlock = 90 /\ ~sel.files[2].Partial
    /\ sel.files[3].EndBlock = 80 /\ ~sel.files[3].Partial
    /\ sel.res.kind = "ok"
    /\ sel.res.file.EndBlock = 90

\* C6: validateStoreBuilder returns a missing-field error whenever
\* updatePolicy or valueType is empty; otherwise it succeeds exactly for the
\* 18 legal pairs and returns the invalid-combination error, which is not a
\* missing-field error, for every other pair; the module is left as it was.
LegalPairs ==
    ({"max", "min", "sum"} \X {"bigint", "int64", "bigfloat", "float64"})
        \cup ({"replace", "ignore"} \X {"bytes", "string", "proto"})
MissingFieldErrors == {ErrMissingUpdatePolicy, ErrMissingValueType}
C6_ValidatePolicy ==
    val.called =>
        LET p == val.orig.UpdatePolicy
            v == val.orig.ValueType
        IN  /\ Cardinality(LegalPairs) = 18
            /\ (p = "" \/ v = "") => val.err \in MissingFieldErrors
            /\ (p # "" /\ v # "") =>
                  /\ (val.err = NoError) <=> (<<p, v>> \in LegalPairs)
                  /\ (val.err # NoError) => val.err = ErrInvalidCombination
            /\ ErrInvalidCombination \notin MissingFieldErrors
            /\ val.module = val.orig
C6_Witness ==
    /\ val.called
    /\ val.orig.UpdatePolicy = "max"
    /\ val.orig.ValueType = "string"
    /\ val.err = ErrInvalidCombination

\* C7: Input.parse succeeds exactly when one of source, store, map is set
\* and a store input's mode is empty, 'get' or 'deltas'; on success the name
\* is '<kind>:<id>' of the populated reference and a store input's empty mode
\* has become 'get'; zero or several references give the ambiguous-input
\* error, a store input with another mode the invalid-mode error.
RefCount(i) ==
    (IF i.Source # "" THEN 1 ELSE 0) + (IF i.Store # "" THEN 1 ELSE 0)
        + (IF i.Map # "" THEN 1 ELSE 0)
Delivering == {m \in Modules : outcome[m] \in {"empty", "ok"}}

ModuleOfName(n) == CHOOSE m \in Modules : NameOf[m] = n

\* C1: a store module whose listing holds no non-partial file (empty, or all
\* partial) gets a record with the identity fields only, which is in the
\* final list, and the process does not crash because of it.
C1_EmptyStoreRecord ==
    \A m \in Modules :
        (kind[m] = "store" /\ fullFiles[m].listed /\ fullFiles[m].n = 0) =>
            /\ ~crashed
            /\ outcome[m] = "empty"
            /\ storeStats[m] = initializeStoreStats(m)
            /\ coord = "done" => storeStats[m] \in Range(stats)

\* C3: under fair scheduling the collection terminates: the channel is closed
\* only after every goroutine has finished, no goroutine signals completion
\* twice, and eventually every goroutine has signalled completion once, every
\* record offered has been received and the coordinator's loop has ended.
C3_Terminates ==
    /\ [](closed => \A m \in Modules : pc[m] = "done")
    /\ [](\A m \in Modules : doneCalls[m] <= 1)
    /\ <>(/\ coord = "done"
          /\ \A m \in Modules : pc[m] = "done" /\ doneCalls[m] = 1
          /\ Len(stats) = Cardinality(Delivering))

\* C4: when the collection has finished, the result holds exactly one record
\* for each store module that met an empty store or got through load, file
\* size and iteration, none for any other module, and each record is the one
\* its own goroutine built; at any time a received record is its sender's.
C4_ExactlyTheDelivered ==
    /\ \A i \in DOMAIN stats :
          \E m \in Modules :
              /\ stats[i] = storeStats[m]
              /\ stats[i].Name = NameOf[m]
              /\ kind[m] = "store"
              /\ m \in Delivering
              /\ pc[m] \in {"sent", "done"}
    /\ coord = "done" =>
          /\ \A m \in Delivering :
                Cardinality({i \in DOMAIN stats : stats[i].Name = NameOf[m]}) = 1
          /\ Len(stats) = Cardinality(Delivering)
          /\ \A m \in Modules :
                /\ outcome[m] = "empty" => storeStats[m] = initializeStoreStats(m)
                /\ outcome[m] = "ok" => storeStats[m].FileInfo # Nil
C4_Witness ==
    /\ coord = "done"
    /\ outcome[1] = "iterError"
    /\ outcome[2] = "ok"
    /\ Len(stats) = 1
    /\ stats[1].Name = NameOf[2]
    /\ stats[1].KeysCount = 3

\* C5: the final list is the same for every order of delivery: it is what
\* the sort makes of the delivered records taken in declaration order.
RECURSIVE InDeclarationOrder(_)
InDeclarationOrder(m) ==
    IF m = 0 THEN <<>>
    ELSE IF m \in Delivering
         THEN Append(InDeclarationOrder(m - 1), storeStats[m])
         ELSE InDeclarationOrder(m - 1)
C5_OrderIndependent ==
    coord = "done" => stats = sortStats(InDeclarationOrder(NumModules), deps)
C5_Witness ==
    /\ coord = "done"
    /\ Len(stats) = 2
    /\ deps[1] = {} /\ deps[2] = {}
    /\ stats # InDeclarationOrder(NumModules)

\* C10: in the final list the record of a module comes after the records of
\* all the modules it depends on, directly or transitively.
C10_DependenciesFirst ==
    coord = "done" =>
        \A i, j \in DOMAIN stats :
            ModuleOfName(stats[j].Name) \in TransDeps(deps, ModuleOfName(stats[i].Name))
                => j < i

C9_InputOrderIndependent ==
    \A m \in SigModules :
        /\ (sigChanged = 0 /\ sigCalls[m].before # <<>>) =>
              \A q \in Perms(sigCalls[m].declared[1]) :
                  <<Signature([sigMods EXCEPT ![m].Inputs = q], sigDeps, m)>>
                      = sigCalls[m].before
        /\ sigCalls[m].again # <<>> => sigCalls[m].again = sigCalls[m].before
C9_Witness ==
    /\ sigChanged = 0
    /\ sigCalls[2].again # <<>>
    /\ Len(sigCalls[2].declared[1]) = 2
    /\ sigCalls[2].declared[1] # sigMods[2].Inputs

SumOf(f) ==
    LET RECURSIVE Upto(_)
        Upto(i) == IF i = 0 THEN 0 ELSE Upto(i - 1) + f[i]
    IN  Upto(Len(f))
MaxOf(f) == CHOOSE x \in Range(f) : \A y \in Range(f) : y <= x
KeyLens(s) == [i \in DOMAIN s |-> Len(s[i].key)]
ValueLens(s) == [i \in DOMAIN s |-> Len(s[i].value)]

\* C11: after calculateStoreStats has iterated a store of n >= 1 entries
\* without error, KeysCount is n, the key and value TotalSize are the sums of
\* the key and value lengths, the key and value LargestSize are the maximum
\* key and value lengths, KeyStats.Largest is a key of that maximum length and
\* ValueStats.Largest is the key of an entry whose value has the maximum value
\* length; after iterating an empty store KeysCount is 0 and KeyStats and
\* ValueStats are absent.
C11_StoreStatsOfIteration ==
    (calc.called /\ calc.err = NoError) =>
        LET s == calc.entries
            st == calc.stats
        IN  IF Len(s) = 0
            THEN st.KeysCount = 0 /\ st.KeyStats = Nil /\ st.ValueStats = Nil
            ELSE /\ st.KeysCount = Len(s)
                 /\ st.KeyStats.TotalSize = SumOf(KeyLens(s))
                 /\ st.ValueStats.TotalSize = SumOf(ValueLens(s))
                 /\ st.KeyStats.LargestSize = MaxOf(KeyLens(s))
                 /\ st.ValueStats.LargestSize = MaxOf(ValueLens(s))
                 /\ \E i \in DOMAIN s :
                       /\ st.KeyStats.Largest = s[i].key
                       /\ Len(s[i].key) = st.KeyStats.LargestSize
                 /\ \E i \in DOMAIN s :
                       /\ st.ValueStats.Largest = s[i].key
                       /\ Len(s[i].value) = st.ValueStats.LargestSize

====
